---- MODULE Spec2Model ----
(***************************************************************************)
(* The request handler `proxy` of sglang_router_proxy (__main__.py): a     *)
(* reverse proxy that hashes a routing-key header to a data-parallel rank, *)
(* injects the rank into the JSON body of POST requests and relays the     *)
(* exchange with the backend.                                              *)
(*                                                                         *)
(* Header names, header values and response bodies are sequences of code   *)
(* points (0..255); a request body is the sequence of lexical tokens of    *)
(* its bytes; a 32-bit word is a pair <<hi, lo>> of 16-bit halves.  What   *)
(* httpx puts on the wire and what Starlette's Response adds to the        *)
(* arguments it is given lie outside the handler and are not modelled.     *)
(***************************************************************************)
EXTENDS Integers, Sequences, FiniteSets, TLC

(***************************************************************************)
(* hashlib.sha256 (FIPS 180-4), as called on line 86.                      *)
(***************************************************************************)
RECURSIVE xor16(_, _)
xor16(a, b) ==
    IF a = 0 THEN b
    ELSE IF b = 0 THEN a
    ELSE 2 * xor16(a \div 2, b \div 2) + ((a + b) % 2)

RECURSIVE and16(_, _)
and16(a, b) ==
    IF a = 0 \/ b = 0 THEN 0
    ELSE 2 * and16(a \div 2, b \div 2) + ((a % 2) * (b % 2))

XorW(x, y) == <<xor16(x[1], y[1]), xor16(x[2], y[2])>>

AndW(x, y) == <<and16(x[1], y[1]), and16(x[2], y[2])>>

NotW(x) == <<65535 - x[1], 65535 - x[2]>>

AddW(x, y) ==
    LET lo == x[2] + y[2]
        hi == x[1] + y[1] + (lo \div 65536)
    IN  <<hi % 65536, lo % 65536>>

RECURSIVE RotrW(_, _)
RotrW(x, n) ==
    IF n = 0 THEN x
    ELSE IF n >= 16 THEN RotrW(<<x[2], x[1]>>, n - 16)
    ELSE LET p == 2 ^ n
             q == 2 ^ (16 - n)
         IN  <<(x[1] \div p) + (x[2] % p) * q, (x[2] \div p) + (x[1] % p) * q>>

ShrW(x, n) ==
    LET p == 2 ^ n
        q == 2 ^ (16 - n)
    IN  <<x[1] \div p, (x[2] \div p) + (x[1] % p) * q>>

Ch(x, y, z) == XorW(AndW(x, y), AndW(NotW(x), z))

Maj(x, y, z) == XorW(XorW(AndW(x, y), AndW(x, z)), AndW(y, z))

BigSigma0(x) == XorW(XorW(RotrW(x, 2), RotrW(x, 13)), RotrW(x, 22))

BigSigma1(x) == XorW(XorW(RotrW(x, 6), RotrW(x, 11)), RotrW(x, 25))

SmallSigma0(x) == XorW(XorW(RotrW(x, 7), RotrW(x, 18)), ShrW(x, 3))

SmallSigma1(x) == XorW(XorW(RotrW(x, 17), RotrW(x, 19)), ShrW(x, 10))

\* Round constants and initial hash value, as pairs of 16-bit halves.
K ==
    <<
       <<17034, 12184>>, <<28983, 17553>>, <<46528, 64463>>, <<59829, 56229>>,
       <<14678, 49755>>, <<23025, 4593>>, <<37439, 33444>>, <<43804, 24277>>,
       <<55303, 43672>>, <<4739, 23297>>, <<9265, 34238>>, <<21772, 32195>>,
       <<29374, 23924>>, <<32990, 45566>>, <<39900, 1703>>, <<49563, 61812>>,
       <<58523, 27073>>, <<61374, 18310>>, <<4033, 40390>>, <<9228, 41420>>,
       <<11753, 11375>>, <<19060, 33962>>, <<23728, 43484>>, <<30457, 35034>>,
       <<38974, 20818>>, <<43057, 50797>>, <<45059, 10184>>, <<48985, 32711>>,
       <<50912, 3059>>, <<54695, 37191>>, <<1738, 25425>>, <<5161, 10599>>,
       <<10167, 2693>>, <<11803, 8504>>, <<19756, 28156>>, <<21304, 3347>>,
       <<25866, 29524>>, <<30314, 2747>>, <<33218, 51502>>, <<37490, 11397>>,
       <<41663, 59553>>, <<43034, 26187>>, <<49739, 35696>>, <<51052, 20899>>,
       <<53650, 59417>>, <<54937, 1572>>, <<62478, 13701>>, <<4202, 41072>>,
       <<6564, 49430>>, <<7735, 27656>>, <<10056, 30540>>, <<13488, 48309>>,
       <<14620, 3251>>, <<20184, 43594>>, <<23452, 51791>>, <<26670, 28659>>,
       <<29839, 33518>>, <<30885, 25455>>, <<33992, 30740>>, <<36039, 520>>,
       <<37054, 65530>>, <<42064, 27883>>, <<48889, 41975>>, <<50801, 30962>>
    >>

H0 ==
    <<
       <<27145, 58983>>, <<47975, 44677>>, <<15470, 62322>>, <<42319, 62778>>,
       <<20750, 21119>>, <<39685, 26764>>, <<8067, 55723>>, <<23520, 52505>>
    >>

Zeros(n) == [j \in 1..n |-> 0]

\* The message followed by 0x80, zero bytes up to 56 mod 64, and the bit
\* length as a 64-bit big-endian integer (messages shorter than 2^13 bytes).
Pad(msg) ==
    LET n == Len(msg)
        z == (119 - n) % 64
        bits == 8 * n
    IN  msg \o <<128>> \o Zeros(z) \o Zeros(6) \o <<bits \div 256, bits % 256>>

\* Words 1..16 of the message schedule: block b (from 0) of the padded message.
BlockWords(p, b) ==
    [t \in 1..16 |->
        LET o == 64 * b + 4 * (t - 1)
        IN  <<p[o + 1] * 256 + p[o + 2], p[o + 3] * 256 + p[o + 4]>>]

\* W_t for t = Len(w) + 1, from the words before it.
NextWord(w) ==
    AddW(AddW(SmallSigma1(w[Len(w) - 1]), w[Len(w) - 6]),
         AddW(SmallSigma0(w[Len(w) - 14]), w[Len(w) - 15]))

\* The schedule w extended by n more words (w is evaluated first, and the
\* halves one after the other, which keeps the evaluation shallow).
RECURSIVE Schedule(_, _)
Schedule(w, n) ==
    IF Len(w) < 16 \/ n = 0 THEN w
    ELSE IF n = 1 THEN Append(w, NextWord(w))
    ELSE Schedule(Schedule(w, n \div 2), n - (n \div 2))

\* The working variables a..h after one round, from T1 and T2.
NextWorking(s, T1, T2) ==
    <<AddW(T1, T2), s[1], s[2], s[3], AddW(s[4], T1), s[5], s[6], s[7]>>

Round(s, w, t) ==
    NextWorking(s,
        AddW(AddW(AddW(s[8], BigSigma1(s[5])), AddW(Ch(s[5], s[6], s[7]), K[t])), w[t]),
        AddW(BigSigma0(s[1]), Maj(s[1], s[2], s[3])))

\* Rounds lo..hi from working variables s (s is evaluated first).
RECURSIVE Rounds(_, _, _, _)
Rounds(s, w, lo, hi) ==
    IF Len(s) # 8 \/ lo > hi THEN s
    ELSE IF lo = hi THEN Round(s, w, lo)
    ELSE Rounds(Rounds(s, w, lo, (lo + hi) \div 2), w, ((lo + hi) \div 2) + 1, hi)

Compress(h, w) ==
    LET s == Rounds(h, w, 1, 64)
    IN  [i \in 1..8 |-> AddW(h[i], s[i])]

RECURSIVE Blocks(_, _, _)
Blocks(h, p, b) ==
    IF Len(h) # 8 \/ 64 * b >= Len(p) THEN h
    ELSE Blocks(Compress(h, Schedule(BlockWords(p, b), 48)), p, b + 1)

\* hashlib.sha256(msg).digest() as eight words.
sha256(msg) == Blocks(H0, Pad(msg), 0)

Hex4(h) == <<h \div 4096, (h \div 256) % 16, (h \div 16) % 16, h % 16>>

RECURSIVE HexWords(_, _)
HexWords(d, i) ==
    IF i > Len(d) THEN <<>>
    ELSE Hex4(d[i][1]) \o Hex4(d[i][2]) \o HexWords(d, i + 1)

\* .hexdigest(): the 64 hexadecimal digits of the digest, as digit values.
hexdigest(msg) == HexWords(sha256(msg), 1)


(***************************************************************************)
(* Text.                                                                   *)
(***************************************************************************)
\* str.lower() on a header name (names are ASCII tokens).
Lower(s) == [j \in 1..Len(s) |-> IF s[j] >= 65 /\ s[j] <= 90 THEN s[j] + 32 ELSE s[j]]

RECURSIVE Utf8From(_, _)
Utf8From(s, j) ==
    IF j > Len(s) THEN <<>>
    ELSE (IF s[j] < 128 THEN <<s[j]>>
          ELSE <<192 + (s[j] \div 64), 128 + (s[j] % 64)>>) \o Utf8From(s, j + 1)

\* routing_key.encode(): UTF-8 of a str whose code points are below 256
\* (Starlette decodes header values as latin-1).
Utf8(s) == Utf8From(s, 1)

(***************************************************************************)
(* Python dicts: a sequence of <<key, value>> pairs with distinct keys, in *)
(* insertion order.                                                        *)
(***************************************************************************)
DictKeys(d) == {d[j][1] : j \in 1..Len(d)}

\* d[k] = v
DictSet(d, k, v) ==
    IF k \in DictKeys(d)
    THEN [j \in 1..Len(d) |-> IF d[j][1] = k THEN <<k, v>> ELSE d[j]]
    ELSE Append(d, <<k, v>>)

RECURSIVE DictFrom(_, _, _)
DictFrom(d, items, j) ==
    IF j > Len(items) THEN d
    ELSE DictFrom(DictSet(d, items[j][1], items[j][2]), items, j + 1)

\* dict(items) and {k: v for k, v in items}: a later pair with a key seen
\* before replaces its value.
Dict(items) == DictFrom(<<>>, items, 1)

(***************************************************************************)
(* Headers.                                                                *)
(***************************************************************************)
\* request.headers.items(): the header lines in the order received, names
\* lower-cased by the ASGI server, duplicates kept.
request_headers(wire) == [j \in 1..Len(wire) |-> <<Lower(wire[j][1]), wire[j][2]>>]

\* Headers.get(name): the value of the first line whose name is name.lower(),
\* as a sequence of one value, or no value (None).
HeadersGet(items, name) ==
    LET hits == {j \in 1..Len(items) : items[j][1] = Lower(name)}
    IN  IF hits = {} THEN <<>>
        ELSE <<items[CHOOSE j \in hits : \A h \in hits : j <= h][2]>>

\* Joined(vs, j): ", ".join(vs[j..])
RECURSIVE Joined(_, _)
Joined(vs, j) ==
    IF j > Len(vs) THEN <<>>
    ELSE IF j = Len(vs) THEN vs[j]
    ELSE vs[j] \o <<44, 32>> \o Joined(vs, j + 1)

RECURSIVE ValuesOf(_, _, _)
ValuesOf(lines, name, j) ==
    IF j > Len(lines) THEN <<>>
    ELSE (IF Lower(lines[j][1]) = name THEN <<lines[j][2]>> ELSE <<>>)
         \o ValuesOf(lines, name, j + 1)

\* dict(resp.headers) for an httpx.Headers: keys() gives each lower-cased
\* name once, __getitem__ the values of all its lines joined by ", ".
dict_resp_headers(lines) ==
    LET names == Dict([j \in 1..Len(lines) |-> <<Lower(lines[j][1]), <<>>>>])
    IN  [j \in 1..Len(names) |-> <<names[j][1], Joined(ValuesOf(lines, names[j][1], 1), 1)>>]

RECURSIVE SelectSeqIdx(_, _, _)
SelectSeqIdx(s, keep, j) ==
    IF j > Len(s) THEN <<>>
    ELSE (IF j \in keep THEN <<s[j]>> ELSE <<>>) \o SelectSeqIdx(s, keep, j + 1)

(***************************************************************************)
(* JSON text.  Tokens of a body: the punctuation "{" "}" "[" "]" ":" ",",  *)
(* "ws" (a run of white space), a string, a number lexeme, one of the      *)
(* literals true false null, one of the words NaN Infinity -Infinity, or   *)
(* "bad" (bytes that begin no token).  A number lexeme denotes             *)
(* (-1)^neg * mant * 10^exp; float says it has a fraction or an exponent.  *)
(***************************************************************************)
Tok(t) == [t |-> t]

TStr(s) == [t |-> "string", s |-> s]

TNum(neg, mant, exp, float) ==
    [t |-> "number", neg |-> neg, mant |-> mant, exp |-> exp, float |-> float]

TLit(v) == [t |-> "literal", v |-> v]

TConst(v) == [t |-> "constant", v |-> v]

NoParse == [ok |-> FALSE, v |-> [k |-> "none"], next |-> 0]

Parsed(v, next) == [ok |-> TRUE, v |-> v, next |-> next]

TokAt(toks, j) == IF j >= 1 /\ j <= Len(toks) THEN toks[j].t ELSE "end"

RECURSIVE SkipWs(_, _)
SkipWs(toks, j) == IF TokAt(toks, j) = "ws" THEN SkipWs(toks, j + 1) ELSE j

\* json.scanner / json.decoder: the value starting at token j, as a syntax
\* tree, and the index after it.
RECURSIVE ParseValue(_, _)
RECURSIVE ParseMembers(_, _, _)
RECURSIVE ParseElements(_, _, _)
RECURSIVE MemberValue(_, _, _, _)
RECURSIVE ElementValue(_, _, _)

ParseValue(toks, j) ==
    LET t == TokAt(toks, j)
    IN  CASE t = "string" -> Parsed([k |-> "string", s |-> toks[j].s], j + 1)
          [] t = "number" -> Parsed([k |-> "number", lex |-> toks[j]], j + 1)
          [] t = "literal" -> Parsed([k |-> "literal", v |-> toks[j].v], j + 1)
          [] t = "constant" -> Parsed([k |-> "constant", v |-> toks[j].v], j + 1)
          [] t = "{" ->
                IF TokAt(toks, SkipWs(toks, j + 1)) = "}"
                THEN Parsed([k |-> "object", members |-> <<>>], SkipWs(toks, j + 1) + 1)
                ELSE ParseMembers(toks, SkipWs(toks, j + 1), <<>>)
          [] t = "[" ->
                IF TokAt(toks, SkipWs(toks, j + 1)) = "]"
                THEN Parsed([k |-> "array", elems |-> <<>>], SkipWs(toks, j + 1) + 1)
                ELSE ParseElements(toks, SkipWs(toks, j + 1), <<>>)
          [] OTHER -> NoParse

\* JSONObject: a member name at j, then ":" and its value.
ParseMembers(toks, j, acc) ==
    IF TokAt(toks, j) # "string" \/ TokAt(toks, SkipWs(toks, j + 1)) # ":" THEN NoParse
    ELSE MemberValue(toks, toks[j].s,
                     ParseValue(toks, SkipWs(toks, SkipWs(toks, j + 1) + 1)), acc)

\* After the member name: its parsed value r, then "}" or "," and a next member.
MemberValue(toks, name, r, acc) ==
    IF ~r.ok THEN NoParse
    ELSE LET e == SkipWs(toks, r.next)
         IN  CASE TokAt(toks, e) = "}" ->
                    Parsed([k |-> "object", members |-> Append(acc, <<name, r.v>>)], e + 1)
               [] TokAt(toks, e) = "," ->
                    ParseMembers(toks, SkipWs(toks, e + 1), Append(acc, <<name, r.v>>))
               [] OTHER -> NoParse

\* JSONArray: an element at j.
ParseElements(toks, j, acc) == ElementValue(toks, ParseValue(toks, j), acc)

ElementValue(toks, r, acc) ==
    IF ~r.ok THEN NoParse
    ELSE LET e == SkipWs(toks, r.next)
         IN  CASE TokAt(toks, e) = "]" ->
                    Parsed([k |-> "array", elems |-> Append(acc, r.v)], e + 1)
               [] TokAt(toks, e) = "," ->
                    ParseElements(toks, SkipWs(toks, e + 1), Append(acc, r.v))
               [] OTHER -> NoParse

\* JSONDecoder.decode: one value between optional white space, and nothing
\* after it ("Extra data" otherwise).
Decode(toks) ==
    LET r == ParseValue(toks, SkipWs(toks, 1))
    IN  IF r.ok /\ SkipWs(toks, r.next) = Len(toks) + 1 THEN r ELSE NoParse

(***************************************************************************)
(* Python objects made from a syntax tree.  A finite float is kept as the  *)
(* decimal (-1)^neg * mant * 10^exp with mant not a multiple of 10: exact  *)
(* for lexemes of at most 15 significant digits whose magnitude lies in    *)
(* the normal range of a binary64; other lexemes in that range are rounded *)
(* by Python and are not drawn here.                                       *)
(***************************************************************************)
RECURSIVE Digits(_)
Digits(m) == IF m < 10 THEN 1 ELSE 1 + Digits(m \div 10)

RECURSIVE Normal(_, _)
Normal(mant, exp) ==
    IF mant = 0 THEN <<0, 0>>
    ELSE IF mant % 10 = 0 THEN Normal(mant \div 10, exp + 1)
    ELSE <<mant, exp>>

\* Decimal exponents of the largest and of the smallest positive binary64.
DBL_MAX_10_EXP == 308

DBL_TRUE_MIN_10_EXP == -324

PyFloat(kind, neg, mant, exp) ==
    [py |-> "float", kind |-> kind, neg |-> neg, mant |-> mant, exp |-> exp]

\* float(lexeme): overflow gives inf, underflow gives zero.
float(lex) ==
    LET n == Normal(lex.mant, lex.exp)
        mag == n[2] + Digits(n[1]) - 1
    IN  IF n[1] # 0 /\ mag > DBL_MAX_10_EXP THEN PyFloat("inf", lex.neg, 0, 0)
        ELSE IF n[1] # 0 /\ mag < DBL_TRUE_MIN_10_EXP THEN PyFloat("finite", lex.neg, 0, 0)
        ELSE PyFloat("finite", lex.neg, n[1], n[2])

\* int(lexeme)
int(lex) == [py |-> "int", n |-> IF lex.neg THEN 0 - lex.mant ELSE lex.mant]

RECURSIVE PyObject(_)
RECURSIVE PyItems(_, _)
PyItems(members, j) ==
    IF j > Len(members) THEN <<>>
    ELSE <<<<members[j][1], PyObject(members[j][2])>>>> \o PyItems(members, j + 1)

PyObject(tree) ==
    CASE tree.k = "object" -> [py |-> "dict", items |-> Dict(PyItems(tree.members, 1))]
      [] tree.k = "array" ->
            [py |-> "list", elems |-> [j \in 1..Len(tree.elems) |-> PyObject(tree.elems[j])]]
      [] tree.k = "string" -> [py |-> "str", s |-> tree.s]
      [] tree.k = "number" -> IF tree.lex.float THEN float(tree.lex) ELSE int(tree.lex)
      [] tree.k = "literal" ->
            IF tree.v = "null" THEN [py |-> "None"]
            ELSE [py |-> "bool", b |-> tree.v = "true"]
      [] tree.k = "constant" ->
            IF tree.v = "NaN" THEN PyFloat("nan", FALSE, 0, 0)
            ELSE PyFloat("inf", tree.v = "-Infinity", 0, 0)

\* json.loads(body): the object, or ok = FALSE where it raises
\* (JSONDecodeError, UnicodeDecodeError).
json_loads(body) ==
    LET r == Decode(body)
    IN  IF r.ok THEN [ok |-> TRUE, v |-> PyObject(r.v)] ELSE [ok |-> FALSE, v |-> [py |-> "None"]]

\* float.__repr__ as json.dumps writes it.
float_repr(x) ==
    CASE x.kind = "nan" -> TConst("NaN")
      [] x.kind = "inf" -> TConst(IF x.neg THEN "-Infinity" ELSE "Infinity")
      [] OTHER -> TNum(x.neg, x.mant, x.exp, TRUE)

\* json.dumps(obj) with the default separators (", ", ": ").
RECURSIVE json_dumps(_)
RECURSIVE DumpItems(_, _)
RECURSIVE DumpElems(_, _)
DumpItems(items, j) ==
    IF j > Len(items) THEN <<>>
    ELSE (IF j > 1 THEN <<Tok(","), Tok("ws")>> ELSE <<>>)
         \o <<TStr(items[j][1]), Tok(":"), Tok("ws")>> \o json_dumps(items[j][2])
         \o DumpItems(items, j + 1)

DumpElems(elems, j) ==
    IF j > Len(elems) THEN <<>>
    ELSE (IF j > 1 THEN <<Tok(","), Tok("ws")>> ELSE <<>>)
         \o json_dumps(elems[j]) \o DumpElems(elems, j + 1)

json_dumps(obj) ==
    CASE obj.py = "dict" -> <<Tok("{")>> \o DumpItems(obj.items, 1) \o <<Tok("}")>>
      [] obj.py = "list" -> <<Tok("[")>> \o DumpElems(obj.elems, 1) \o <<Tok("]")>>
      [] obj.py = "str" -> <<TStr(obj.s)>>
      [] obj.py = "int" -> <<TNum(obj.n < 0, IF obj.n < 0 THEN 0 - obj.n ELSE obj.n, 0, FALSE)>>
      [] obj.py = "float" -> <<float_repr(obj)>>
      [] obj.py = "bool" -> <<TLit(IF obj.b THEN "true" ELSE "false")>>
      [] obj.py = "None" -> <<TLit("null")>>

(***************************************************************************)
(* The inputs drawn: header names and values, by their code points.       *)
(***************************************************************************)
N_Host == <<72, 111, 115, 116>>  \* "Host"

N_HOST == <<72, 79, 83, 84>>  \* "HOST"

N_host == <<104, 111, 115, 116>>  \* "host"

N_ContentLength == <<67, 111, 110, 116, 101, 110, 116, 45, 76, 101, 110, 103, 116, 104>>  \* "Content-Length"

N_content_length == <<99, 111, 110, 116, 101, 110, 116, 45, 108, 101, 110, 103, 116, 104>>  \* "content-length"

N_CONTENT_LENGTH == <<67, 79, 78, 84, 69, 78, 84, 45, 76, 69, 78, 71, 84, 72>>  \* "CONTENT-LENGTH"

N_RoutingKey == <<88, 45, 83, 77, 71, 45, 82, 111, 117, 116, 105, 110, 103, 45, 75, 101, 121>>  \* "X-SMG-Routing-Key"

N_routing_key == <<120, 45, 115, 109, 103, 45, 114, 111, 117, 116, 105, 110, 103, 45, 107, 101, 121>>  \* "x-smg-routing-key"

N_ContentType == <<67, 111, 110, 116, 101, 110, 116, 45, 84, 121, 112, 101>>  \* "Content-Type"

N_XForwardedFor == <<88, 45, 70, 111, 114, 119, 97, 114, 100, 101, 100, 45, 70, 111, 114>>  \* "X-Forwarded-For"

N_SetCookie == <<83, 101, 116, 45, 67, 111, 111, 107, 105, 101>>  \* "Set-Cookie"

V_proxy == <<112, 114, 111, 120, 121, 58, 57, 48, 48, 48>>  \* "proxy:9000"

V_15 == <<49, 53>>  \* "15"

V_json == <<97, 112, 112, 108, 105, 99, 97, 116, 105, 111, 110, 47, 106, 115, 111, 110>>  \* "application/json"

V_abc == <<97, 98, 99>>  \* "abc"

V_xyz == <<120, 121, 122>>  \* "xyz"

V_e_acute == <<233>>  \* "é"

V_empty == <<>>  \* ""

V_client == <<49, 48, 46, 48, 46, 48, 46, 49>>  \* "10.0.0.1"

V_gateway == <<49, 48, 46, 48, 46, 48, 46, 50>>  \* "10.0.0.2"

V_cookie_a == <<97, 61, 49>>  \* "a=1"

V_cookie_b == <<98, 61, 50>>  \* "b=2"

V_ok == <<111, 107>>  \* "ok"

V_not_found == <<110, 111, 116, 32, 102, 111, 117, 110, 100>>  \* "not found"

V_internal_server_error == <<73, 110, 116, 101, 114, 110, 97, 108, 32, 83, 101, 114, 118, 101, 114, 32, 69, 114, 114, 111, 114>>  \* "Internal Server Error"
(***************************************************************************)
(* Rank selection (line 86).                                               *)
(***************************************************************************)
\* The routing keys the requests drawn carry.
RoutingKeys == {V_abc, V_xyz, V_e_acute, V_empty}

\* The digests of those keys, computed once.
HexDigests == [k \in RoutingKeys |-> hexdigest(Utf8(k))] @@ <<>>

\* hashlib.sha256(routing_key.encode()).hexdigest()
sha256_hexdigest(routing_key) ==
    IF routing_key \in RoutingKeys THEN HexDigests[routing_key]
    ELSE hexdigest(Utf8(routing_key))

\* (acc * 16^(hi-lo+1) + the digits lo..hi of hex) mod n, for n > 0.
RECURSIVE HexMod(_, _, _, _, _)
HexMod(hex, n, lo, hi, acc) ==
    IF acc < 0 \/ lo > hi THEN acc
    ELSE IF lo = hi THEN (acc * 16 + hex[lo]) % n
    ELSE HexMod(hex, n, ((lo + hi) \div 2) + 1, hi,
                HexMod(hex, n, lo, (lo + hi) \div 2, acc))

\* int(hex, 16) mod n for n > 0: the digits taken from the most significant.
IntMod(hex, n) == HexMod(hex, n, 1, Len(hex), 0)

\* A remainder that takes the partition count to be 16.
PyMod_fixed16(hex, n) == IntMod(hex, 16)

\* int(hex, 16) % n as Python computes it for n # 0: the result has the
\* sign of n.
PyMod(hex, n) ==
    IF n > 0 THEN IntMod(hex, n)
    ELSE IF IntMod(hex, 0 - n) = 0 THEN 0
    ELSE IntMod(hex, 0 - n) + n

\* int(hashlib.sha256(routing_key.encode()).hexdigest(), 16) % args.dp_size
rank(routing_key, dp_size) == PyMod(sha256_hexdigest(routing_key), dp_size)

(***************************************************************************)
(* State.                                                                  *)
(***************************************************************************)
VARIABLES
    args,       \* the parsed command line (line 74)
    pc,         \* per task: where the handler is
    inbound,    \* per task: the request being handled, as sent by the caller
    calls,      \* per task: the upstream requests issued so far
    resp,       \* per task: the upstream response received
    returned    \* per task: the response given to the caller

vars == <<args, pc, inbound, calls, resp, returned>>

\* Requests handled at the same time.
MaxTasks == 2

Tasks == 1..MaxTasks

\* Values of --dp-size (argparse accepts any integer).
DpSizes == {-2, 0, 3, 16}

parse_args(dp_size) ==
    [backend |-> "http://127.0.0.1:8000", dp_size |-> dp_size,
     routing_header |-> N_RoutingKey, timeout |-> 600]

(***************************************************************************)
(* The handler, lines 79-107, for the request of task i.                   *)
(***************************************************************************)
request(i) == inbound[i][1]

\* A body kept where every task reads it: that of another request in flight.
request_body_shared(i) ==
    LET others == {j \in Tasks : j # i /\ pc[j] # "idle"}
    IN  IF others = {} THEN request(i).body
        ELSE request(CHOOSE j \in others : TRUE).body

\* await request.body() (line 80)
request_body(i) == request(i).body

\* request.headers.get(args.routing_header) (line 83)
routing_key(i) == HeadersGet(request_headers(request(i).headers), args.routing_header)

\* A gate that forgets the method.
Gated_any_method(i) == request_body(i) # <<>>

\* request.method == "POST" and body (line 82)
Gated(i) == request(i).method = "POST" /\ request_body(i) # <<>>

\* A test for None alone: "" counts as a key.
Truthy_not_none(key) == key # <<>>

\* if routing_key: neither None nor "" (line 84)
Truthy(key) == key # <<>> /\ key[1] # <<>>

Rewrites(i) == Gated(i) /\ Truthy(routing_key(i))

\* data = json.loads(body) (line 85)
data(i) == json_loads(request_body(i))

\* A handler that assigns the rank only to a dict and lets any other parsed
\* body through.
Raised_decode_only(i) ==
    IF ~(Gated(i) /\ Truthy(routing_key(i))) THEN ""
    ELSE IF ~json_loads(request_body(i)).ok THEN "JSONDecodeError"
    ELSE IF args.dp_size = 0 THEN "ZeroDivisionError"
    ELSE ""

\* The exception lines 85-87 raise, "" if none: json.loads on a body that
\* does not parse, the modulus on dp_size = 0, the item assignment on an
\* object that is no dict.
Raised(i) ==
    IF ~Rewrites(i) THEN ""
    ELSE IF ~data(i).ok THEN "JSONDecodeError"
    ELSE IF args.dp_size = 0 THEN "ZeroDivisionError"
    ELSE IF data(i).v.py # "dict" THEN "TypeError"
    ELSE ""

\* A rank taken in turn, from the number of the task.
proxy_rank_round_robin(i) == PyMod(<<i>>, args.dp_size)

\* rank (line 86) for the request of task i.
proxy_rank(i) == rank(routing_key(i)[1], args.dp_size)

\* data["data_parallel_rank"] = rank; body = json.dumps(data).encode()
\* (lines 87-88)
rewritten_body(i) ==
    json_dumps([py |-> "dict",
                items |-> DictSet(data(i).v.items, "data_parallel_rank",
                                  [py |-> "int", n |-> proxy_rank(i)])])

\* body as line 100 reads it.  No branch of the code forwards the original
\* body of a request whose rewriting raised.
body(i) ==
    IF Rewrites(i) /\ data(i).ok /\ data(i).v.py = "dict" /\ args.dp_size # 0
    THEN rewritten_body(i)
    ELSE request_body(i)

\* k.lower() not in ("host", "content-length") (line 98)
Forwarded(k) == Lower(k) \notin {N_host, N_content_length}

\* The dict comprehension of lines 95-99.
upstream_headers(i) ==
    LET items == request_headers(request(i).headers)
    IN  Dict(SelectSeqIdx(items, {j \in 1..Len(items) : Forwarded(items[j][1])}, 1))

\* The arguments of client.request (lines 91-101).
upstream_request(i) ==
    [method |-> request(i).method,
     url |-> <<args.backend, request(i).path>>,
     headers |-> upstream_headers(i),
     content |-> body(i),
     timeout |-> args.timeout]

\* A call made again.
issued_and_retried(i) == <<upstream_request(i), upstream_request(i)>>

\* The upstream calls one request issues: the single await of line 92.
issued(i) == <<upstream_request(i)>>

\* Response(content=..., status_code=..., headers=dict(resp.headers))
\* (lines 103-107)
Response(r) ==
    [status_code |-> r.status_code, headers |-> dict_resp_headers(r.headers),
     content |-> r.content, exc |-> ""]

\* What the caller gets for an exception the handler does not catch:
\* Starlette's 500 response.
ServerError(exc) ==
    [status_code |-> 500, headers |-> <<>>, content |-> V_internal_server_error,
     exc |-> exc]

Init ==
    /\ args \in {parse_args(n) : n \in DpSizes}
    /\ pc = [i \in Tasks |-> "idle"]
    /\ inbound = [i \in Tasks |-> <<>>]
    /\ calls = [i \in Tasks |-> <<>>]
    /\ resp = [i \in Tasks |-> <<>>]
    /\ returned = [i \in Tasks |-> <<>>]

\* The server dispatches request r to the handler (lines 78-79), which
\* suspends reading the body (line 80).
Receive(i, r) ==
    /\ pc[i] = "idle"
    /\ pc' = [pc EXCEPT ![i] = "body"]
    /\ inbound' = [inbound EXCEPT ![i] = <<r>>]
    /\ UNCHANGED <<args, calls, resp, returned>>

\* The body is read; the handler runs lines 82-101 up to the upstream call
\* and suspends there, or raises.
proxy_body(i) ==
    /\ pc[i] = "body"
    /\ IF Raised(i) # ""
       THEN /\ returned' = [returned EXCEPT ![i] = <<ServerError(Raised(i))>>]
            /\ pc' = [pc EXCEPT ![i] = "done"]
            /\ UNCHANGED calls
       ELSE /\ calls' = [calls EXCEPT ![i] = calls[i] \o issued(i)]
            /\ pc' = [pc EXCEPT ![i] = "upstream"]
            /\ UNCHANGED returned
    /\ UNCHANGED <<args, inbound, resp>>

\* client.request returns r; the handler returns the Response (lines 92,
\* 103-107).
proxy_response(i, r) ==
    /\ pc[i] = "upstream"
    /\ resp' = [resp EXCEPT ![i] = <<r>>]
    /\ returned' = [returned EXCEPT ![i] = <<Response(r)>>]
    /\ pc' = [pc EXCEPT ![i] = "done"]
    /\ UNCHANGED <<args, inbound, calls>>

\* client.request raises (connection failure, timeout): nothing catches it.
proxy_upstream_error(i) ==
    /\ pc[i] = "upstream"
    /\ returned' = [returned EXCEPT ![i] = <<ServerError("httpx.TransportError")>>]
    /\ pc' = [pc EXCEPT ![i] = "done"]
    /\ UNCHANGED <<args, inbound, calls, resp>>

\* The task of a finished request ends; nothing of it is kept.
Finish(i) ==
    /\ pc[i] = "done"
    /\ pc' = [pc EXCEPT ![i] = "idle"]
    /\ inbound' = [inbound EXCEPT ![i] = <<>>]
    /\ calls' = [calls EXCEPT ![i] = <<>>]
    /\ resp' = [resp EXCEPT ![i] = <<>>]
    /\ returned' = [returned EXCEPT ![i] = <<>>]
    /\ UNCHANGED args

(***************************************************************************)
(* The requests and upstream responses drawn.                              *)
(***************************************************************************)
One == TNum(FALSE, 1, 0, FALSE)

B_empty == <<>>

\* {"prompt":"hi"}
B_prompt == <<Tok("{"), TStr("prompt"), Tok(":"), TStr("hi"), Tok("}")>>

\* { "data_parallel_rank" : "old" , "n" : 7 }
B_ranked ==
    <<Tok("{"), Tok("ws"), TStr("data_parallel_rank"), Tok("ws"), Tok(":"), Tok("ws"),
      TStr("old"), Tok("ws"), Tok(","), Tok("ws"), TStr("n"), Tok("ws"), Tok(":"),
      Tok("ws"), TNum(FALSE, 7, 0, FALSE), Tok("ws"), Tok("}")>>

\* {"a":1,"a":2}
B_duplicate ==
    <<Tok("{"), TStr("a"), Tok(":"), One, Tok(","), TStr("a"), Tok(":"),
      TNum(FALSE, 2, 0, FALSE), Tok("}")>>

\* {"x":1e400}
B_huge == <<Tok("{"), TStr("x"), Tok(":"), TNum(FALSE, 1, 400, TRUE), Tok("}")>>

\* {"x":-25e-402}
B_tiny == <<Tok("{"), TStr("x"), Tok(":"), TNum(TRUE, 25, -402, TRUE), Tok("}")>>

\* {"x":1.50,"y":[true,null,{"z":-0.0}]}
B_nested ==
    <<Tok("{"), TStr("x"), Tok(":"), TNum(FALSE, 150, -2, TRUE), Tok(","), TStr("y"),
      Tok(":"), Tok("["), TLit("true"), Tok(","), TLit("null"), Tok(","), Tok("{"),
      TStr("z"), Tok(":"), TNum(TRUE, 0, -1, TRUE), Tok("}"), Tok("]"), Tok("}")>>

\* {"a":NaN}
B_nan == <<Tok("{"), TStr("a"), Tok(":"), TConst("NaN"), Tok("}")>>

\* [1,2]
B_array == <<Tok("["), One, Tok(","), TNum(FALSE, 2, 0, FALSE), Tok("]")>>

\* 5
B_scalar == <<TNum(FALSE, 5, 0, FALSE)>>

\* {"a":
B_truncated == <<Tok("{"), TStr("a"), Tok(":")>>

\* {"a":1,}
B_trailing_comma == <<Tok("{"), TStr("a"), Tok(":"), One, Tok(","), Tok("}")>>

\* {}
B_empty_object == <<Tok("{"), Tok("}")>>

\* a blank
B_blank == <<Tok("ws")>>

\* {"a":1}x
B_extra == <<Tok("{"), TStr("a"), Tok(":"), One, Tok("}"), Tok("bad")>>

AllBodies ==
    {B_empty, B_prompt, B_ranked, B_duplicate, B_huge, B_tiny, B_nested, B_nan, B_array,
     B_scalar, B_truncated, B_trailing_comma, B_empty_object, B_blank, B_extra}

H_plain == <<<<N_Host, V_proxy>>, <<N_ContentLength, V_15>>>>

H_keyed ==
    <<<<N_host, V_proxy>>, <<N_RoutingKey, V_abc>>, <<N_ContentType, V_json>>,
      <<N_CONTENT_LENGTH, V_15>>>>

H_keyed_xyz == <<<<N_Host, V_proxy>>, <<N_routing_key, V_xyz>>>>

H_empty_key == <<<<N_HOST, V_proxy>>, <<N_routing_key, V_empty>>, <<N_content_length, V_15>>>>

H_latin1_key == <<<<N_Host, V_proxy>>, <<N_RoutingKey, V_e_acute>>>>

H_forwarded ==
    <<<<N_Host, V_proxy>>, <<N_XForwardedFor, V_client>>, <<N_XForwardedFor, V_gateway>>,
      <<N_RoutingKey, V_abc>>>>

H_two_keys == <<<<N_Host, V_proxy>>, <<N_RoutingKey, V_abc>>, <<N_routing_key, V_xyz>>>>

AllHeaders ==
    {H_plain, H_keyed, H_keyed_xyz, H_empty_key, H_latin1_key, H_forwarded, H_two_keys}

\* The methods of the route (line 78).
Methods == {"GET", "POST", "PUT", "DELETE"}

Paths == {"generate", "v1/chat/completions"}

Req(method, path, headers, b) ==
    [method |-> method, path |-> path, headers |-> headers, body |-> b]

AllRequests == {Req(m, p, h, b) : m \in Methods, p \in Paths, h \in AllHeaders, b \in AllBodies}

R_ok ==
    [status_code |-> 200, headers |-> <<<<N_ContentType, V_json>>, <<N_ContentLength, V_15>>>>,
     content |-> V_ok]

R_not_found == [status_code |-> 404, headers |-> <<>>, content |-> V_not_found]

R_cookies ==
    [status_code |-> 200,
     headers |-> <<<<N_SetCookie, V_cookie_a>>, <<N_ContentType, V_json>>,
                   <<N_SetCookie, V_cookie_b>>>>,
     content |-> V_ok]

R_unavailable ==
    [status_code |-> 503, headers |-> <<<<N_content_length, V_15>>>>, content |-> V_empty]

AllResponses == {R_ok, R_not_found, R_cookies, R_unavailable}

\* The requests in flight together.
SomeRequests ==
    {Req("POST", "generate", H_keyed, B_prompt),
     Req("POST", "v1/chat/completions", H_two_keys, B_ranked),
     Req("POST", "generate", H_keyed_xyz, B_prompt),
     Req("POST", "generate", H_keyed, B_array),
     Req("GET", "generate", H_keyed, B_empty),
     Req("PUT", "generate", H_plain, B_nested),
     Req("POST", "v1/chat/completions", H_latin1_key, B_huge),
     Req("POST", "generate", H_empty_key, B_truncated)}

SomeResponses == {R_ok, R_not_found}

(***************************************************************************)
(* Specifications.                                                         *)
(***************************************************************************)
\* Requests handled concurrently: any interleaving of the tasks' steps.
Next ==
    \E i \in Tasks :
        \/ \E r \in SomeRequests : Receive(i, r)
        \/ proxy_body(i)
        \/ \E r \in SomeResponses : proxy_response(i, r)
        \/ proxy_upstream_error(i)
        \/ Finish(i)

Spec == Init /\ [][Next]_vars

\* One request at a time, over every request and response drawn.
NextEach ==
    \/ \E r \in AllRequests : Receive(1, r)
    \/ proxy_body(1)
    \/ \E r \in AllResponses : proxy_response(1, r)
    \/ proxy_upstream_error(1)
    \/ Finish(1)

SpecEach == Init /\ [][NextEach]_vars

TypeOK ==
    /\ args \in {parse_args(n) : n \in DpSizes}
    /\ pc \in [Tasks -> {"idle", "body", "upstream", "done"}]
    /\ \A i \in Tasks :
        /\ Len(inbound[i]) = (IF pc[i] = "idle" THEN 0 ELSE 1)
        /\ Len(calls[i]) <= 1
        /\ Len(resp[i]) <= 1
        /\ Len(returned[i]) = (IF pc[i] = "done" THEN 1 ELSE 0)

(***************************************************************************)
(* What the properties speak of, read off the requests and responses       *)
(* themselves.                                                             *)
(***************************************************************************)
\* The handler of task i has passed the rewriting stage.
Past(i) == pc[i] \in {"upstream", "done"}

Called(i) == calls[i] # <<>>

\* The upstream request of task i.
Sent(i) == calls[i][1]

\* The values of the routing header's lines, in the order received.
RoutingValues(i) == ValuesOf(request(i).headers, Lower(args.routing_header), 1)

\* The routing header is absent, or empty wherever it occurs.
NoKey(i) == \A j \in 1..Len(RoutingValues(i)) : RoutingValues(i)[j] = <<>>

\* The request carries a non-empty routing key: the first value.
HasKey(i) == RoutingValues(i) # <<>> /\ RoutingValues(i)[1] # <<>>

Key(i) == RoutingValues(i)[1]

\* The gating condition of the rewriting stage.
PostWithBody(i) == request(i).method = "POST" /\ request(i).body # <<>>

\* A tree is JSON proper: none of the words NaN, Infinity, -Infinity in it.
RECURSIVE Strict(_)
Strict(tree) ==
    CASE tree.k = "object" ->
            \A j \in 1..Len(tree.members) : Strict(tree.members[j][2])
      [] tree.k = "array" -> \A j \in 1..Len(tree.elems) : Strict(tree.elems[j])
      [] tree.k = "constant" -> FALSE
      [] OTHER -> TRUE

\* The text is a well-formed JSON object.
JsonObject(text) == Decode(text).ok /\ Decode(text).v.k = "object" /\ Strict(Decode(text).v)

\* The text is an object as json.loads reads it: JSON, or JSON with the
\* words NaN, Infinity, -Infinity for values.
ParsedObject(text) == Decode(text).ok /\ Decode(text).v.k = "object"

Names(tree) == {tree.members[j][1] : j \in 1..Len(tree.members)}

\* The value of the field name of an object: that of its last member so named.
Field(tree, name) ==
    LET at == {j \in 1..Len(tree.members) : tree.members[j][1] = name}
    IN  tree.members[CHOOSE j \in at : \A h \in at : h <= j][2]

\* The value a JSON text denotes: a number is its exact decimal value.
RECURSIVE JsonValue(_)
JsonValue(tree) ==
    CASE tree.k = "object" ->
            [k |-> "object",
             fields |-> {<<n, JsonValue(Field(tree, n))>> : n \in Names(tree)}]
      [] tree.k = "array" ->
            [k |-> "array", elems |-> [j \in 1..Len(tree.elems) |-> JsonValue(tree.elems[j])]]
      [] tree.k = "number" ->
            [k |-> "number", neg |-> tree.lex.neg /\ tree.lex.mant # 0,
             dec |-> Normal(tree.lex.mant, tree.lex.exp)]
      [] OTHER -> tree

\* The rank in the body sent upstream.
InjectedRank(i) ==
    LET lex == Field(Decode(Sent(i).content).v, "data_parallel_rank").lex
    IN  IF lex.neg THEN 0 - lex.mant ELSE lex.mant

\* A rank was injected for the request of task i.
Routed(i) == Called(i) /\ PostWithBody(i) /\ HasKey(i)

SameName(a, b) == Lower(a) = Lower(b)

(***************************************************************************)
(* Properties.                                                             *)
(***************************************************************************)

\* C1: rank selection is deterministic: requests that carry the same routing
\* key, under the one partition count, get the same rank injected, whatever
\* else they hold and however they interleave.
C1_SameKeySameRank ==
    \A i, j \in Tasks :
        (Routed(i) /\ Routed(j) /\ Key(i) = Key(j)) => InjectedRank(i) = InjectedRank(j)

\* Two requests of different bodies and paths, both rewritten under the key
\* "abc", one already answered.
C1_Witness ==
    \E i, j \in Tasks :
        /\ i # j /\ Routed(i) /\ Routed(j)
        /\ Key(i) = V_abc /\ Key(j) = V_abc
        /\ request(i).body # request(j).body
        /\ pc[i] = "done" /\ pc[j] = "upstream"
        /\ args.dp_size = 16 /\ InjectedRank(i) = 13

\* C2: for a partition count N > 0 the injected rank r satisfies 0 <= r < N.
C2_RankInRange ==
    \A i \in Tasks :
        (Routed(i) /\ args.dp_size > 0) =>
            (InjectedRank(i) >= 0 /\ InjectedRank(i) < args.dp_size)

C2_Witness ==
    \E i \in Tasks :
        Routed(i) /\ args.dp_size = 3 /\ Key(i) = V_e_acute /\ InjectedRank(i) = 0

\* C3: a request whose routing header is absent or empty is forwarded with
\* the body it came with, byte for byte, whatever its method and body.
C3_NoKeyPassThrough ==
    \A i \in Tasks :
        (Past(i) /\ NoKey(i)) => (Called(i) /\ Sent(i).content = request(i).body)

\* A POST with an empty routing header and a body that does not parse,
\* forwarded as it is.
C3_Witness ==
    \E i \in Tasks :
        /\ pc[i] = "done" /\ NoKey(i) /\ RoutingValues(i) # <<>>
        /\ request(i).method = "POST" /\ request(i).body = B_truncated
        /\ Called(i) /\ Sent(i).content = B_truncated

\* C4 as stated: a POST with a routing key whose body is not a well-formed
\* JSON object fails with a 5xx and makes no upstream call.
C4_NotJsonObjectFails ==
    \A i \in Tasks :
        (Past(i) /\ PostWithBody(i) /\ HasKey(i) /\ ~JsonObject(request(i).body)) =>
            (/\ pc[i] = "done" /\ ~Called(i)
             /\ returned[i][1].status_code >= 500 /\ returned[i][1].status_code <= 599)

\* C4 as amended: the same of a body that is no object as json.loads reads
\* it, which admits NaN, Infinity and -Infinity as values.
C4_NotParsedObjectFails ==
    \A i \in Tasks :
        (Past(i) /\ PostWithBody(i) /\ HasKey(i) /\ ~ParsedObject(request(i).body)) =>
            (/\ pc[i] = "done" /\ ~Called(i)
             /\ returned[i][1].status_code >= 500 /\ returned[i][1].status_code <= 599)

\* A POST under a key with the body [1,2], answered 500 with no upstream call.
C4_Witness ==
    \E i \in Tasks :
        /\ pc[i] = "done" /\ PostWithBody(i) /\ HasKey(i)
        /\ request(i).body = B_array /\ args.dp_size = 16
        /\ ~Called(i) /\ returned[i][1].status_code = 500

\* C5: when rewriting succeeds, the body sent upstream is the original
\* object with data_parallel_rank set to the computed rank, and every other
\* field present with its value unmodified.
C5_RewriteKeepsFields ==
    \A i \in Tasks :
        (Routed(i) /\ JsonObject(request(i).body)) =>
            LET old == Decode(request(i).body).v
                new == Decode(Sent(i).content).v
            IN  /\ JsonObject(Sent(i).content)
                /\ Names(new) = Names(old) \cup {"data_parallel_rank"}
                /\ JsonValue(Field(new, "data_parallel_rank")) =
                       JsonValue([k |-> "number",
                                  lex |-> json_dumps([py |-> "int",
                                                      n |-> rank(Key(i), args.dp_size)])[1]])
                /\ \A n \in Names(old) \ {"data_parallel_rank"} :
                       JsonValue(Field(new, n)) = JsonValue(Field(old, n))

\* C6: the upstream headers hold no Host and no Content-Length in any letter
\* case, and every other inbound header line is sent with its value.
C6_HeadersFiltered ==
    \A i \in Tasks :
        Called(i) =>
            /\ \A k \in DictKeys(Sent(i).headers) :
                   ~SameName(k, N_host) /\ ~SameName(k, N_content_length)
            /\ \A j \in 1..Len(request(i).headers) :
                   LET line == request(i).headers[j]
                   IN  (~SameName(line[1], N_host) /\ ~SameName(line[1], N_content_length)) =>
                           \E h \in 1..Len(Sent(i).headers) :
                               /\ SameName(Sent(i).headers[h][1], line[1])
                               /\ Sent(i).headers[h][2] = line[2]

\* C7: a request that is no POST, or has no body, is forwarded with the body
\* it came with even under a routing key: nothing is parsed, nothing fails,
\* and the upstream call is made.
C7_UngatedPassThrough ==
    \A i \in Tasks :
        (Past(i) /\ ~PostWithBody(i)) => (Called(i) /\ Sent(i).content = request(i).body)

\* A PUT under a key with the body [1,2], forwarded as it is.
C7_Witness ==
    \E i \in Tasks :
        /\ Past(i) /\ request(i).method = "PUT" /\ HasKey(i)
        /\ request(i).body = B_array /\ Called(i) /\ Sent(i).content = B_array

\* C8: the response returned has the status code, the body and the header
\* lines of the upstream response: none added, removed or rewritten.
C8_ResponseRelayed ==
    \A i \in Tasks :
        (pc[i] = "done" /\ resp[i] # <<>>) =>
            /\ returned[i][1].status_code = resp[i][1].status_code
            /\ returned[i][1].content = resp[i][1].content
            /\ \A j \in 1..Len(resp[i][1].headers) :
                   \E h \in 1..Len(returned[i][1].headers) :
                       /\ SameName(returned[i][1].headers[h][1], resp[i][1].headers[j][1])
                       /\ returned[i][1].headers[h][2] = resp[i][1].headers[j][2]
            /\ \A h \in 1..Len(returned[i][1].headers) :
                   \E j \in 1..Len(resp[i][1].headers) :
                       /\ SameName(returned[i][1].headers[h][1], resp[i][1].headers[j][1])
                       /\ returned[i][1].headers[h][2] = resp[i][1].headers[j][2]

\* C9: a request makes at most one upstream call and ends in one of three
\* ways: the upstream response relayed after exactly one call, a server error
\* before any call (rewriting raised), or a server error after its one call
\* (the call raised), which is not made again.
C9_AtMostOneCall ==
    \A i \in Tasks :
        /\ Len(calls[i]) <= 1
        /\ pc[i] = "upstream" => Len(calls[i]) = 1
        /\ pc[i] = "done" =>
            \/ /\ returned[i][1].exc = ""
               /\ Len(calls[i]) = 1 /\ resp[i] # <<>>
            \/ /\ returned[i][1].exc \in {"JSONDecodeError", "TypeError", "ZeroDivisionError"}
               /\ returned[i][1].status_code = 500
               /\ calls[i] = <<>> /\ resp[i] = <<>>
            \/ /\ returned[i][1].exc = "httpx.TransportError"
               /\ returned[i][1].status_code = 500
               /\ Len(calls[i]) = 1 /\ resp[i] = <<>>

\* The upstream call of one request failed, after one call, while another
\* request failed in rewriting, with none.
C9_Witness ==
    \E i, j \in Tasks :
        /\ pc[i] = "done" /\ returned[i][1].exc = "httpx.TransportError"
        /\ Len(calls[i]) = 1 /\ returned[i][1].status_code = 500
        /\ pc[j] = "done" /\ returned[j][1].exc = "TypeError" /\ calls[j] = <<>>

\* Requests with the same method, path, headers and body were sent upstream
\* alike, and with the same upstream response were answered alike, whatever
\* else was in flight; each upstream request has its own request's method and
\* path.
Isolated ==
    /\ \A i \in Tasks :
        Called(i) =>
            /\ Sent(i).method = request(i).method
            /\ Sent(i).url = <<args.backend, request(i).path>>
    /\ \A i, j \in Tasks :
        (inbound[i] = inbound[j] /\ Called(i) /\ Called(j)) => calls[i] = calls[j]
    /\ \A i, j \in Tasks :
        (inbound[i] = inbound[j] /\ pc[i] = "done" /\ pc[j] = "done" /\ resp[i] = resp[j]) =>
            returned[i] = returned[j]

\* C10: requests handled concurrently are isolated from each other under
\* every interleaving of their steps, and no step changes the configuration.
C10_Isolation == [](Isolated) /\ [][args' = args]_vars

\* Two requests in flight together, the same but for what came back: one
\* answered, one waiting for the upstream.
C10_Witness ==
    \E i, j \in Tasks :
        /\ i # j /\ inbound[i] = inbound[j]
        /\ pc[i] = "done" /\ pc[j] = "upstream" /\ resp[i] # <<>>
        /\ calls[i] = calls[j] /\ Routed(i)
====
